---- MODULE Spec2Model ----
(***************************************************************************)
(* ARENA tournament management core (src/system.py, class ArenaSystem;     *)
(* src/arena_tournament_system.py holds the same class plus the GUI).      *)
(*                                                                         *)
(* The store is five dictionaries and the current-user context; every      *)
(* successful mutating operation ends with save_data, which rewrites the   *)
(* whole JSON document.  Operations are synchronous and run one at a time, *)
(* so each handler is one atomic action.                                   *)
(*                                                                         *)
(* Fields that no operation reads (name, email, the *_date timestamps,     *)
(* game_type, description, start_date, prize_pool, title, content, cost)   *)
(* are left out of the records.  Python's None is the string NoneVal.      *)
(* Generated ids are tuples: f"TOUR_{n}" is <<"TOUR", n>> and              *)
(* f"{tournament_id}_MATCH_{k}" is <<"TOUR", n, "MATCH", k>>.              *)
(***************************************************************************)
EXTENDS Integers, Sequences, FiniteSets, TLC

VARIABLES users, leagues, tournaments, matches, advertisements,
          current_user, disk, last

vars == <<users, leagues, tournaments, matches, advertisements,
          current_user, disk, last>>

store == <<users, leagues, tournaments, matches, advertisements>>

-----------------------------------------------------------------------------
(* Bounds of the model *)

MaxTournaments == 1

MaxPlayersInput == 4

MaxMatchList == 2

MaxLeagues == 1

MaxAds == 1

MaxFrameTournaments == 2

-----------------------------------------------------------------------------
(* Values *)

NoneVal == "<None>"

NoId == <<>>

BYE == "BYE"

OPERATOR == "Operator"

LEAGUE_OWNER == "League Owner"

PLAYER == "Player"

SPECTATOR == "Spectator"

ADVERTISER == "Advertiser"

UserRole == {OPERATOR, LEAGUE_OWNER, PLAYER, SPECTATOR, ADVERTISER}

ANNOUNCED == "Announced"

OPEN_FOR_REGISTRATION == "Open for Registration"

IN_PROGRESS == "In Progress"

COMPLETED == "Completed"

ARCHIVED == "Archived"

TournamentStatus == {ANNOUNCED, OPEN_FOR_REGISTRATION, IN_PROGRESS, COMPLETED, ARCHIVED}

SCHEDULED == "Scheduled"

LIVE == "Live"

MatchStatus == {SCHEDULED, LIVE, COMPLETED}

(* The (success, message) results of the handlers; a handler that returns *)
(* an id has result Created, one that raises has the exception's name.    *)
MsgRegistered == "Registration successful. Account pending approval."

MsgUsernameExists == "Username already exists"

MsgUserNotFound == "User not found"

MsgInvalidPassword == "Invalid password"

MsgNotApproved == "Account not approved yet"

MsgLoginOk == "Login successful"

MsgTournamentNotFound == "Tournament not found"

MsgAlreadyRegistered == "Already registered for this tournament"

MsgTournamentFull == "Tournament is full"

MsgApplied == "Application submitted successfully"

MsgNeedTwo == "Need at least 2 participants"

MsgStarted == "Tournament started successfully"

MsgMatchNotFound == "Match not found"

MsgRecorded == "Match result recorded"

Created == "created"

TypeError == "TypeError"

-----------------------------------------------------------------------------
(* Python helpers *)

(* d[k] = v on a dict: inserts the key or overwrites its value *)
Put(d, k, v) == [x \in (DOMAIN d) \cup {k} |-> IF x = k THEN v ELSE d[x]]

EmptyDict == [x \in {} |-> NoneVal]

(* variant: any recorded winner counts, None included *)
TruthyAnything(w) == TRUE

(* truth value of a winner: None and "" are false *)
Truthy(w) == w \notin {NoneVal, ""}

InList(x, s) == \E i \in 1..Len(s) : s[i] = x

(* range(0, n - 1, 2) *)
PairStarts(n) == {i \in 0..(n - 2) : i % 2 = 0}

LeagueId(n) == <<"LEAGUE", n>>

TourId(n) == <<"TOUR", n>>

AdId(n) == <<"AD", n>>

(* slip: the match id built without the tournament id *)
MatchIdShared(tournament_id, match_num) == <<"MATCH", match_num>>

MatchId(tournament_id, match_num) == tournament_id \o <<"MATCH", match_num>>

-----------------------------------------------------------------------------
(* Persistence *)

(* the dict handed to json.dump *)
Document(u, l, t, m, a) ==
    [users |-> u, leagues |-> l, tournaments |-> t, matches |-> m,
     advertisements |-> a]

(* JSON values, as written to and read from the file *)
JNull == <<"null">>

JTrue == <<"true">>

JFalse == <<"false">>

JStr(s) == <<"string", s>>

JNum(n) == <<"number", n>>

JArr(s) == <<"array", s>>

JObj(f) == <<"object", f>>

(* json.dump by Python type: bool, int, str, list of str *)
JsonBool(b) == IF b THEN JTrue ELSE JFalse

JsonInt(n) == JNum(n)

JsonStr(s) == JStr(s)

JsonList(s) == JArr([i \in DOMAIN s |-> JStr(s[i])])

(* variant: None goes through str() as an unserialisable object would *)
JsonOptStrAsText(x) == JStr(IF x = NoneVal THEN "None" ELSE x)

(* a field holding None or a str *)
JsonOptStr(x) == IF x = NoneVal THEN JNull ELSE JStr(x)

JsonDict(d, F(_)) == JObj([k \in DOMAIN d |-> F(d[k])])

JsonUser(u) ==
    JObj([password |-> JsonStr(u.password), role |-> JsonStr(u.role),
          approved |-> JsonBool(u.approved)])

JsonLeague(l) ==
    JObj([owner |-> JsonStr(l.owner), tournaments |-> JsonList(l.tournaments)])

JsonTournament(t) ==
    JObj([league_id |-> JsonStr(t.league_id), max_players |-> JsonInt(t.max_players),
          status |-> JsonStr(t.status), participants |-> JsonList(t.participants),
          matches |-> JsonList(t.matches), winner |-> JsonOptStr(t.winner),
          created_by |-> JsonStr(t.created_by)])

JsonMatch(m) ==
    JObj([tournament_id |-> JsonStr(m.tournament_id), player1 |-> JsonStr(m.player1),
          player2 |-> JsonStr(m.player2), status |-> JsonStr(m.status),
          winner |-> JsonOptStr(m.winner), score |-> JsonStr(m.score)])

JsonAd(a) ==
    JObj([advertiser |-> JsonStr(a.advertiser), active |-> JsonBool(a.active)])

(* json.dump(data, f): the text of the five collections *)
json_dump(data) ==
    JObj([users |-> JsonDict(data.users, JsonUser),
          leagues |-> JsonDict(data.leagues, JsonLeague),
          tournaments |-> JsonDict(data.tournaments, JsonTournament),
          matches |-> JsonDict(data.matches, JsonMatch),
          advertisements |-> JsonDict(data.advertisements, JsonAd)])

RECURSIVE json_value(_)

(* json.load: the Python value of a JSON value *)
json_value(j) ==
    CASE j[1] = "null" -> NoneVal
      [] j[1] = "true" -> TRUE
      [] j[1] = "false" -> FALSE
      [] j[1] = "string" -> j[2]
      [] j[1] = "number" -> j[2]
      [] j[1] = "array" -> [i \in DOMAIN j[2] |-> json_value(j[2][i])]
      [] j[1] = "object" -> [k \in DOMAIN j[2] |-> json_value(j[2][k])]

(* the content of the data file: the JSON value its text spells, and *)
(* whether the text is well-formed JSON; for a malformed text, value *)
(* is what can still be read off it                                   *)
Text(value, wellformed) == [value |-> value, wellformed |-> wellformed]

(* the data file: no file, or the one text it holds *)
NoFile == <<>>

(* variant: the handler returns without writing *)
save_data_Skipped == disk' = disk

(* save_data, as the last step of a handler: the file is rewritten with *)
(* the five collections as the handler leaves them                      *)
save_data ==
    disk' = <<Text(json_dump(Document(users', leagues', tournaments', matches',
                                      advertisements')), TRUE)>>

(* variant: a text cut short is read as far as it goes *)
ParsesLenient(text) == TRUE

(* json.load raises on a malformed text *)
Parses(text) == text.wellformed

(* data.get(k, {}) *)
Get(data, k) == IF k \in DOMAIN data THEN data[k] ELSE [x \in {} |-> NoneVal]

Defaults ==
    Document([x \in {} |-> NoneVal], [x \in {} |-> NoneVal], [x \in {} |-> NoneVal],
             [x \in {} |-> NoneVal], [x \in {} |-> NoneVal])

(* load_data on a new object: the five collections it leaves; any *)
(* exception inside the try block is swallowed, and the only      *)
(* statements that can raise run before the first assignment      *)
load_data(file) ==
    IF file = NoFile THEN Defaults
    ELSE IF ~Parses(file[1]) THEN Defaults
    ELSE IF file[1].value[1] # "object" THEN Defaults
    ELSE LET data == json_value(file[1].value)
         IN Document(Get(data, "users"), Get(data, "leagues"),
                     Get(data, "tournaments"), Get(data, "matches"),
                     Get(data, "advertisements"))

Result(op, res, id) == [op |-> op, res |-> res, id |-> id]

(* a handler that returns early or raises: nothing is written *)
Returns(op, res, id) ==
    /\ last' = Result(op, res, id)
    /\ UNCHANGED <<users, leagues, tournaments, matches, advertisements,
                   current_user, disk>>

(* variant: the default account waits for approval like any operator *)
AdminRecordUnapproved == [password |-> "admin123", role |-> OPERATOR, approved |-> FALSE]

AdminRecord == [password |-> "admin123", role |-> OPERATOR, approved |-> TRUE]

(* variant: the default account is written on every start *)
NeedsBootstrapAlways(us) == TRUE

(* if "admin" not in self.users *)
NeedsBootstrap(us) == "admin" \notin DOMAIN us

(* the five collections of a newly constructed ArenaSystem *)
Constructed(file) ==
    LET data == load_data(file)
    IN [data EXCEPT !.users = IF NeedsBootstrap(@)
                              THEN Put(@, "admin", AdminRecord) ELSE @]

(* the process is started again: a new ArenaSystem over the same file *)
Restart ==
    LET data == Constructed(disk)
    IN /\ users' = data.users
       /\ leagues' = data.leagues
       /\ tournaments' = data.tournaments
       /\ matches' = data.matches
       /\ advertisements' = data.advertisements
       /\ current_user' = NoneVal
       /\ disk' = disk
       /\ last' = Result("init", Created, NoId)

Init ==
    /\ users = [u \in {"admin"} |-> AdminRecord]
    /\ leagues = EmptyDict
    /\ tournaments = EmptyDict
    /\ matches = EmptyDict
    /\ advertisements = EmptyDict
    /\ current_user = NoneVal
    /\ disk = NoFile
    /\ last = Result("init", Created, NoId)

-----------------------------------------------------------------------------
(* User management *)

(* slip: "if self.users" for "if username in self.users" *)
UsernameTakenAnyUser(username) == DOMAIN users # {}

(* slip: the membership test reads another collection *)
UsernameTakenWrongDict(username) == username \in DOMAIN leagues

UsernameTaken(username) == username \in DOMAIN users

(* variant: players are let in without approval as well *)
ApprovedAtCreationPlayersToo(role) == IF role \notin {SPECTATOR, PLAYER} THEN FALSE ELSE TRUE

(* "approved": False if role != UserRole.SPECTATOR.value else True *)
ApprovedAtCreation(role) == IF role # SPECTATOR THEN FALSE ELSE TRUE

NewUser(password, role) ==
    [password |-> password, role |-> role, approved |-> ApprovedAtCreation(role)]

register_user(username, password, role) ==
    IF UsernameTaken(username)
    THEN Returns("register_user", MsgUsernameExists, <<username>>)
    ELSE /\ users' = Put(users, username, NewUser(password, role))
         /\ UNCHANGED <<leagues, tournaments, matches, advertisements, current_user>>
         /\ save_data
         /\ last' = Result("register_user", MsgRegistered, <<username>>)

(* slip: the approval check left out *)
login_result_NoApprovalCheck(username, password) ==
    IF username \notin DOMAIN users THEN MsgUserNotFound
    ELSE IF users[username].password # password THEN MsgInvalidPassword
    ELSE MsgLoginOk

(* slip: the approval check placed before the password check *)
login_result_ApprovalFirst(username, password) ==
    IF username \notin DOMAIN users THEN MsgUserNotFound
    ELSE IF ~users[username].approved THEN MsgNotApproved
    ELSE IF users[username].password # password THEN MsgInvalidPassword
    ELSE MsgLoginOk

login_result(username, password) ==
    IF username \notin DOMAIN users THEN MsgUserNotFound
    ELSE IF users[username].password # password THEN MsgInvalidPassword
    ELSE IF ~users[username].approved THEN MsgNotApproved
    ELSE MsgLoginOk

(* current_user is a reference to the record users[username]; records are *)
(* never removed or replaced, so the reference is modelled by its key     *)
login(username, password) ==
    LET res == login_result(username, password) IN
    IF res # MsgLoginOk
    THEN Returns("login", res, <<username, password>>)
    ELSE /\ current_user' = username
         /\ last' = Result("login", res, <<username, password>>)
         /\ UNCHANGED <<users, leagues, tournaments, matches, advertisements, disk>>

(* the operator dashboard's approve button: the username comes from the *)
(* list of existing users                                               *)
(* slip: the flag is flipped instead of set *)
approve_user_Toggle(username) ==
    /\ username \in DOMAIN users
    /\ users' = [users EXCEPT ![username].approved = ~@]
    /\ UNCHANGED <<leagues, tournaments, matches, advertisements, current_user>>
    /\ save_data
    /\ last' = Result("approve_user", Created, <<username>>)

approve_user(username) ==
    /\ username \in DOMAIN users
    /\ users' = [users EXCEPT ![username].approved = TRUE]
    /\ UNCHANGED <<leagues, tournaments, matches, advertisements, current_user>>
    /\ save_data
    /\ last' = Result("approve_user", Created, <<username>>)

(* the Logout button of a dashboard: show_login_screen redraws the *)
(* window and touches nothing of the ArenaSystem object            *)
logout ==
    /\ current_user # NoneVal
    /\ Returns("logout", Created, NoId)

-----------------------------------------------------------------------------
(* Leagues, tournaments, advertisements *)

create_league ==
    LET league_id == LeagueId(Cardinality(DOMAIN leagues) + 1) IN
    IF current_user = NoneVal
    THEN Returns("create_league", TypeError, NoId)
    ELSE /\ leagues' = Put(leagues, league_id,
                           [owner |-> current_user, tournaments |-> <<>>])
         /\ UNCHANGED <<users, tournaments, matches, advertisements, current_user>>
         /\ save_data
         /\ last' = Result("create_league", Created, league_id)

(* slip: a new tournament opens for registration at once *)
NewTournamentOpen(league_id, max_players) ==
    [league_id |-> league_id, max_players |-> max_players,
     status |-> OPEN_FOR_REGISTRATION,
     participants |-> <<>>, matches |-> <<>>, winner |-> NoneVal,
     created_by |-> current_user]

NewTournament(league_id, max_players) ==
    [league_id |-> league_id, max_players |-> max_players, status |-> ANNOUNCED,
     participants |-> <<>>, matches |-> <<>>, winner |-> NoneVal,
     created_by |-> current_user]

create_tournament(league_id, max_players) ==
    LET tournament_id == TourId(Cardinality(DOMAIN tournaments) + 1) IN
    IF current_user = NoneVal
    THEN Returns("create_tournament", TypeError, NoId)
    ELSE /\ tournaments' = Put(tournaments, tournament_id,
                               NewTournament(league_id, max_players))
         /\ leagues' = IF league_id \in DOMAIN leagues
                       THEN [leagues EXCEPT ![league_id].tournaments =
                                                Append(@, tournament_id)]
                       ELSE leagues
         /\ UNCHANGED <<users, matches, advertisements, current_user>>
         /\ save_data
         /\ last' = Result("create_tournament", Created, tournament_id)

create_advertisement ==
    LET ad_id == AdId(Cardinality(DOMAIN advertisements) + 1) IN
    IF current_user = NoneVal
    THEN Returns("create_advertisement", TypeError, NoId)
    ELSE /\ advertisements' = Put(advertisements, ad_id,
                                  [advertiser |-> current_user, active |-> TRUE])
         /\ UNCHANGED <<users, leagues, tournaments, matches, current_user>>
         /\ save_data
         /\ last' = Result("create_advertisement", Created, ad_id)

-----------------------------------------------------------------------------
(* Tournament lifecycle *)

(* slip: only the most recent participant is compared *)
IsRegisteredLastOnly(username, tournament) ==
    /\ tournament.participants # <<>>
    /\ tournament.participants[Len(tournament.participants)] = username

IsRegistered(username, tournament) == InList(username, tournament.participants)

(* slip: > for >= *)
IsFullOffByOne(tournament) == Len(tournament.participants) > tournament.max_players

IsFull(tournament) == Len(tournament.participants) >= tournament.max_players

(* slip: the capacity check placed before the membership check *)
apply_result_FullFirst(tournament_id) ==
    IF tournament_id \notin DOMAIN tournaments THEN MsgTournamentNotFound
    ELSE IF current_user = NoneVal THEN TypeError
    ELSE IF IsFull(tournaments[tournament_id]) THEN MsgTournamentFull
    ELSE IF IsRegistered(current_user, tournaments[tournament_id])
         THEN MsgAlreadyRegistered
    ELSE MsgApplied

apply_result(tournament_id) ==
    IF tournament_id \notin DOMAIN tournaments THEN MsgTournamentNotFound
    ELSE IF current_user = NoneVal THEN TypeError
    ELSE IF IsRegistered(current_user, tournaments[tournament_id])
         THEN MsgAlreadyRegistered
    ELSE IF IsFull(tournaments[tournament_id]) THEN MsgTournamentFull
    ELSE MsgApplied

(* variant: registration reopens only a tournament that was Announced *)
AppliedOpensAnnouncedOnly(tournament, username) ==
    [tournament EXCEPT !.participants = Append(@, username),
                       !.status = IF @ = ANNOUNCED THEN OPEN_FOR_REGISTRATION ELSE @]

Applied(tournament, username) ==
    [tournament EXCEPT !.participants = Append(@, username),
                       !.status = OPEN_FOR_REGISTRATION]

apply_for_tournament(tournament_id) ==
    LET res == apply_result(tournament_id) IN
    IF res # MsgApplied
    THEN Returns("apply_for_tournament", res, tournament_id)
    ELSE /\ tournaments' = [tournaments EXCEPT ![tournament_id] =
                                Applied(@, current_user)]
         /\ UNCHANGED <<users, leagues, matches, advertisements, current_user>>
         /\ save_data
         /\ last' = Result("apply_for_tournament", res, tournament_id)

(* slip: < 1 for < 2 *)
TooFewOffByOne(tournament) == Len(tournament.participants) < 1

TooFew(tournament) == Len(tournament.participants) < 2

(* the match built in the loop iteration with index i (0-based), which is *)
(* iteration number i / 2 + 1                                             *)
(* slip: every match is given the first participant as player1 *)
BracketMatchRepeatsFirst(tournament_id, participants, i) ==
    [tournament_id |-> tournament_id,
     player1 |-> participants[1],
     player2 |-> IF i + 1 < Len(participants) THEN participants[i + 2] ELSE BYE,
     status |-> SCHEDULED, winner |-> NoneVal, score |-> ""]

(* slip: participants[i] for participants[i + 1] as the opponent *)
BracketMatchAgainstSelf(tournament_id, participants, i) ==
    [tournament_id |-> tournament_id,
     player1 |-> participants[i + 1],
     player2 |-> IF i + 1 < Len(participants) THEN participants[i + 1] ELSE BYE,
     status |-> SCHEDULED, winner |-> NoneVal, score |-> ""]

(* slip: the pair is seated the other way round *)
BracketMatchSwapped(tournament_id, participants, i) ==
    [tournament_id |-> tournament_id,
     player1 |-> IF i + 1 < Len(participants) THEN participants[i + 2] ELSE BYE,
     player2 |-> participants[i + 1],
     status |-> SCHEDULED, winner |-> NoneVal, score |-> ""]

BracketMatch(tournament_id, participants, i) ==
    [tournament_id |-> tournament_id,
     player1 |-> participants[i + 1],
     player2 |-> IF i + 1 < Len(participants) THEN participants[i + 2] ELSE BYE,
     status |-> SCHEDULED, winner |-> NoneVal, score |-> ""]

(* the ids appended to tournament["matches"], in loop order *)
BracketIds(tournament_id, n) ==
    [k \in 1..Cardinality(PairStarts(n)) |-> MatchId(tournament_id, k)]

(* self.matches after the loop: each generated id is inserted or overwritten *)
BracketMatches(tournament_id, participants) ==
    LET n == Len(participants)
        new == {MatchId(tournament_id, (i \div 2) + 1) : i \in PairStarts(n)}
    IN [m \in (DOMAIN matches) \cup new |->
          IF m \in new
          THEN BracketMatch(tournament_id, participants, 2 * (m[Len(m)] - 1))
          ELSE matches[m]]

start_tournament(tournament_id) ==
    IF tournament_id \notin DOMAIN tournaments
    THEN Returns("start_tournament", MsgTournamentNotFound, tournament_id)
    ELSE IF TooFew(tournaments[tournament_id])
    THEN Returns("start_tournament", MsgNeedTwo, tournament_id)
    ELSE LET participants == tournaments[tournament_id].participants IN
         /\ matches' = BracketMatches(tournament_id, participants)
         /\ tournaments' = [tournaments EXCEPT
                ![tournament_id].status = IN_PROGRESS,
                ![tournament_id].matches =
                    @ \o BracketIds(tournament_id, Len(participants))]
         /\ UNCHANGED <<users, leagues, advertisements, current_user>>
         /\ save_data
         /\ last' = Result("start_tournament", MsgStarted, tournament_id)

(* sum(1 for m in tournament["matches"] if ... status == Completed) *)
CompletedCount(ids, ms) == Cardinality({i \in 1..Len(ids) : ms[ids[i]].status = COMPLETED})

(* slip: the list of winners taken newest first *)
WinnersNewestFirst(ids, ms) ==
    LET kept == SelectSeq(ids, LAMBDA m : Truthy(ms[m].winner))
    IN [k \in 1..Len(kept) |-> ms[kept[Len(kept) + 1 - k]].winner]

(* [matches[m].get("winner") for m in tournament["matches"] if matches[m].get("winner")] *)
Winners(ids, ms) ==
    LET kept == SelectSeq(ids, LAMBDA m : Truthy(ms[m].winner))
    IN [k \in 1..Len(kept) |-> ms[kept[k]].winner]

(* slip: a finished tournament is filed away at once *)
ConcludedArchives(tournament, ms) ==
    IF CompletedCount(tournament.matches, ms) = Len(tournament.matches)
       /\ Winners(tournament.matches, ms) # <<>>
    THEN [tournament EXCEPT !.winner = Winners(tournament.matches, ms)[1],
                            !.status = ARCHIVED]
    ELSE tournament

(* the tournament after the completion check, given the updated matches *)
Concluded(tournament, ms) ==
    IF CompletedCount(tournament.matches, ms) = Len(tournament.matches)
       /\ Winners(tournament.matches, ms) # <<>>
    THEN [tournament EXCEPT !.winner = Winners(tournament.matches, ms)[1],
                            !.status = COMPLETED]
    ELSE tournament

record_match_result(match_id, winner, score) ==
    IF match_id \notin DOMAIN matches
    THEN Returns("record_match_result", MsgMatchNotFound, match_id)
    ELSE LET ms == [matches EXCEPT ![match_id].status = COMPLETED,
                                   ![match_id].winner = winner,
                                   ![match_id].score = score]
             tid == matches[match_id].tournament_id
         IN /\ matches' = ms
            /\ tournaments' = [tournaments EXCEPT ![tid] = Concluded(@, ms)]
            /\ UNCHANGED <<users, leagues, advertisements, current_user>>
            /\ save_data
            /\ last' = Result("record_match_result", MsgRecorded, match_id)

-----------------------------------------------------------------------------
(* The tournament lifecycle under bounded inputs *)

Players == {"alice", "bob", "carol"}

LoginInputs == {<<"admin", "admin123">>} \cup (Players \X {"pw"})

WinnerInputs == {NoneVal, "admin", "alice"}

TournamentIds == {TourId(n) : n \in 1..MaxTournaments}

MatchIds == {MatchId(t, k) : t \in TournamentIds, k \in 1..MaxMatchList}

(* a successful start keeps the match-id list within MaxMatchList *)
StartWithinBound(tournament_id) ==
    (tournament_id \in DOMAIN tournaments /\ ~TooFew(tournaments[tournament_id]))
        => Len(tournaments[tournament_id].matches)
             + Cardinality(PairStarts(Len(tournaments[tournament_id].participants)))
           <= MaxMatchList

(* Under Spec the callers register fresh usernames and log in with the    *)
(* credentials of registered users; the rejected calls of these two, which *)
(* leave the store alone, are the subject of SpecUsers                     *)
Register == \E u \in Players \ DOMAIN users : register_user(u, "pw", SPECTATOR)

Login == \E c \in LoginInputs : c[1] \in DOMAIN users /\ login(c[1], c[2])

CreateTournament ==
    /\ Cardinality(DOMAIN tournaments) < MaxTournaments
    /\ \E mp \in 0..MaxPlayersInput : create_tournament(LeagueId(1), mp)

Apply == \E t \in TournamentIds : apply_for_tournament(t)

Start == \E t \in TournamentIds : StartWithinBound(t) /\ start_tournament(t)

Record == \E m \in MatchIds, w \in WinnerInputs : record_match_result(m, w, "1-0")

Next == Register \/ Login \/ CreateTournament \/ Apply \/ Start \/ Record

Spec == Init /\ [][Next]_vars

-----------------------------------------------------------------------------
(* The user operations under bounded inputs *)

UsernameInputs == {"admin", "alice", "bob"}

PasswordInputs == {"pw", "admin123"}

RegisterAny ==
    \E u \in UsernameInputs, p \in PasswordInputs, r \in UserRole : register_user(u, p, r)

LoginAny == \E u \in UsernameInputs, p \in PasswordInputs : login(u, p)

Approve == \E u \in UsernameInputs : approve_user(u)

NextUsers == RegisterAny \/ LoginAny \/ Approve

SpecUsers == Init /\ [][NextUsers]_vars

-----------------------------------------------------------------------------
(* The store and its file: all handlers, with restarts of the process *)

StoreUsers == {"alice"}

StoreRoles == {PLAYER, SPECTATOR}

StoreLogins == {<<"admin", "admin123">>, <<"alice", "pw">>}

StoreMaxPlayers == {1, 2}

StoreWinners == {NoneVal, "alice"}

StoreRegister ==
    \E u \in StoreUsers \cup {"admin"}, r \in StoreRoles : register_user(u, "pw", r)

StoreLogin == \E c \in StoreLogins : login(c[1], c[2])

StoreApprove == \E u \in StoreUsers : approve_user(u)

StoreCreateLeague ==
    /\ current_user # NoneVal => Cardinality(DOMAIN leagues) < MaxLeagues
    /\ create_league

StoreCreateTournament ==
    /\ current_user # NoneVal => Cardinality(DOMAIN tournaments) < MaxTournaments
    /\ \E l \in 1..(MaxLeagues + 1), mp \in StoreMaxPlayers :
           create_tournament(LeagueId(l), mp)

StoreCreateAdvertisement ==
    /\ current_user # NoneVal => Cardinality(DOMAIN advertisements) < MaxAds
    /\ create_advertisement

StoreApply == \E t \in TournamentIds : apply_for_tournament(t)

StoreStart == \E t \in TournamentIds : StartWithinBound(t) /\ start_tournament(t)

StoreRecord ==
    \E m \in MatchIds, w \in StoreWinners : record_match_result(m, w, "1-0")

NextStore ==
    \/ StoreRegister \/ StoreLogin \/ StoreApprove \/ StoreCreateLeague
    \/ StoreCreateTournament \/ StoreCreateAdvertisement \/ StoreApply
    \/ StoreStart \/ StoreRecord \/ Restart

SpecStore == Init /\ [][NextStore]_vars

-----------------------------------------------------------------------------
(* One tournament from registration to its winner: the league owner bob, *)
(* the players alice, carol and dave, a tournament for two               *)

Applicants == {"alice", "carol", "dave"}

ScenarioRole(u) == IF u = "bob" THEN LEAGUE_OWNER ELSE PLAYER

ScenarioRegister ==
    \E u \in Applicants \cup {"bob"} : register_user(u, "pw", ScenarioRole(u))

ScenarioApprove == \E u \in Applicants \cup {"bob"} : approve_user(u)

ScenarioLogin == \E u \in Applicants \cup {"bob"} : login(u, "pw")

ScenarioCreateLeague ==
    /\ current_user = "bob"
    /\ Cardinality(DOMAIN leagues) < MaxLeagues
    /\ create_league

ScenarioCreateTournament ==
    /\ current_user = "bob"
    /\ Cardinality(DOMAIN tournaments) < MaxTournaments
    /\ \E l \in DOMAIN leagues : create_tournament(l, 2)

ScenarioApply ==
    /\ current_user \in Applicants
    /\ \E t \in TournamentIds : apply_for_tournament(t)

ScenarioStart ==
    /\ current_user = "bob"
    /\ \E t \in TournamentIds : StartWithinBound(t) /\ start_tournament(t)

ScenarioRecord ==
    \E m \in MatchIds, w \in {"alice", "carol"} : record_match_result(m, w, "1-0")

NextScenario ==
    \/ ScenarioRegister \/ ScenarioApprove \/ ScenarioLogin \/ ScenarioCreateLeague
    \/ ScenarioCreateTournament \/ ScenarioApply \/ ScenarioStart \/ ScenarioRecord

SpecScenario == Init /\ [][NextScenario]_vars

-----------------------------------------------------------------------------
(* Sessions: users log in and out and create records in between *)

SessionUsers == {"alice", "bob"}

SessionRegister == \E u \in SessionUsers : register_user(u, "pw", SPECTATOR)

SessionLogin ==
    \E u \in SessionUsers \cup {"admin"}, p \in {"pw", "admin123"} : login(u, p)

SessionLogout == logout

SessionCreateLeague ==
    /\ Cardinality(DOMAIN leagues) < MaxLeagues
    /\ create_league

SessionCreateTournament ==
    /\ Cardinality(DOMAIN tournaments) < MaxTournaments
    /\ create_tournament(LeagueId(1), 2)

SessionCreateAdvertisement ==
    /\ Cardinality(DOMAIN advertisements) < MaxAds
    /\ create_advertisement

SessionApply == \E t \in TournamentIds : apply_for_tournament(t)

NextSession ==
    \/ SessionRegister \/ SessionLogin \/ SessionLogout \/ SessionCreateLeague
    \/ SessionCreateTournament \/ SessionCreateAdvertisement \/ SessionApply

SpecSession == Init /\ [][NextSession]_vars

-----------------------------------------------------------------------------
(* Several tournaments side by side: admin and alice apply to them, *)
(* start them and record their matches                              *)

FrameTournamentIds == {TourId(n) : n \in 1..MaxFrameTournaments}

FrameMatchIds == {MatchId(t, k) : t \in FrameTournamentIds, k \in 1..MaxMatchList}

FrameRegister == register_user("alice", "pw", SPECTATOR)

FrameLogin == \E c \in {<<"admin", "admin123">>, <<"alice", "pw">>} : login(c[1], c[2])

FrameCreateTournament ==
    /\ current_user # NoneVal
    /\ Cardinality(DOMAIN tournaments) < MaxFrameTournaments
    /\ create_tournament(LeagueId(1), 2)

FrameApply ==
    /\ current_user # NoneVal
    /\ \E t \in FrameTournamentIds : apply_for_tournament(t)

FrameStart == \E t \in FrameTournamentIds : StartWithinBound(t) /\ start_tournament(t)

FrameRecord ==
    \E m \in FrameMatchIds, w \in {NoneVal, "alice"} : record_match_result(m, w, "1-0")

NextFrame ==
    \/ FrameRegister \/ FrameLogin \/ FrameCreateTournament \/ FrameApply
    \/ FrameStart \/ FrameRecord

SpecFrame == Init /\ [][NextFrame]_vars

-----------------------------------------------------------------------------
(* Construction over a data file found on disk: absent, written by an *)
(* earlier run, edited by hand, cut short, or not a document at all   *)

EditedAdmins ==
    {[password |-> "changed", role |-> OPERATOR, approved |-> TRUE],
     [password |-> "admin123", role |-> PLAYER, approved |-> TRUE],
     [password |-> "admin123", role |-> OPERATOR, approved |-> FALSE]}

FileUsers ==
    {[x \in {} |-> NoneVal],
     [u \in {"alice"} |-> NewUser("pw", PLAYER)]}
    \cup {[u \in {"admin"} |-> r] : r \in EditedAdmins \cup {AdminRecord}}
    \cup {[u \in {"admin", "alice"} |-> IF u = "admin" THEN r ELSE NewUser("pw", PLAYER)] :
             r \in EditedAdmins}

FileLeagues ==
    {[x \in {} |-> NoneVal],
     [l \in {LeagueId(1)} |-> [owner |-> "admin", tournaments |-> <<>>]]}

FileKeys ==
    {{}, {"users"}, {"leagues"}, {"users", "leagues"},
     {"users", "leagues", "tournaments", "matches", "advertisements"}}

(* the object with only the keys ks of a dumped document *)
Keep(j, ks) == JObj([k \in ks |-> j[2][k]])

FileValues ==
    {Keep(json_dump(Document(u, l, [x \in {} |-> NoneVal], [x \in {} |-> NoneVal],
                             [x \in {} |-> NoneVal])), ks) :
        u \in FileUsers, l \in FileLeagues, ks \in FileKeys}
    \cup {JArr(<<>>), JNull}

FileInputs == {NoFile} \cup {<<Text(v, w)>> : v \in FileValues, w \in BOOLEAN}

InitFiles ==
    /\ disk \in FileInputs
    /\ users = Constructed(disk).users
    /\ leagues = Constructed(disk).leagues
    /\ tournaments = Constructed(disk).tournaments
    /\ matches = Constructed(disk).matches
    /\ advertisements = Constructed(disk).advertisements
    /\ current_user = NoneVal
    /\ last = Result("init", Created, NoId)

FilesRegister == \E u \in {"admin", "alice"} : register_user(u, "pw", PLAYER)

FilesLogin ==
    \E u \in {"admin", "alice"}, p \in {"admin123", "changed", "pw"} : login(u, p)

FilesApprove == \E u \in {"admin", "alice"} : approve_user(u)

NextFiles == FilesRegister \/ FilesLogin \/ FilesApprove \/ Restart

SpecFiles == InitFiles /\ [][NextFiles]_vars

-----------------------------------------------------------------------------
(* Properties *)

Called(op) == last'.op = op

Ceil2(n) == (n + 1) \div 2

AllCompleted(t) ==
    \A i \in 1..Len(tournaments[t].matches) :
        matches[tournaments[t].matches[i]].status = COMPLETED

(* C1: a successful startTournament on n >= 2 participants creates        *)
(* ceil(n/2) matches; for odd n the last participant is paired with "BYE", *)
(* for even n no created match has player2 = "BYE".                        *)
C1_BracketSize ==
    [][(Called("start_tournament") /\ last'.res = MsgStarted) =>
         LET t == last'.id
             p == tournaments[t].participants
             n == Len(p)
             created == SubSeq(tournaments'[t].matches,
                               Len(tournaments[t].matches) + 1,
                               Len(tournaments'[t].matches))
         IN /\ Len(created) = Ceil2(n)
            /\ (n % 2 = 1) =>
                  /\ matches'[created[Len(created)]].player1 = p[n]
                  /\ matches'[created[Len(created)]].player2 = BYE
            /\ (n % 2 = 0) =>
                  \A k \in 1..Len(created) : matches'[created[k]].player2 # BYE
      ]_vars

(* C2: after a recordResult call that leaves every match of the owning *)
(* tournament's match-id list Completed, the tournament is Completed.  *)
C2_CompletedWhenAllMatchesCompleted ==
    (last.op = "record_match_result" /\ last.res = MsgRecorded) =>
        LET t == matches[last.id].tournament_id
        IN AllCompleted(t) => tournaments[t].status = COMPLETED

(* C3: after a recordResult that leaves its tournament Completed, the     *)
(* tournament's winner is the winner of the earliest match in the match-id *)
(* list that has a recorded winner, whatever the recording order.          *)
C3_WinnerIsFirstInListOrder ==
    (last.op = "record_match_result" /\ last.res = MsgRecorded) =>
        LET t == matches[last.id].tournament_id
            ids == tournaments[t].matches
        IN (tournaments[t].status = COMPLETED
            /\ \E i \in 1..Len(ids) : Truthy(matches[ids[i]].winner)) =>
              \E k \in 1..Len(ids) :
                 /\ Truthy(matches[ids[k]].winner)
                 /\ \A j \in 1..(k - 1) : ~Truthy(matches[ids[j]].winner)
                 /\ tournaments[t].winner = matches[ids[k]].winner

(* the second match of the list was recorded first and with another winner *)
C3_Witness ==
    /\ last = Result("record_match_result", MsgRecorded, MatchId(TourId(1), 1))
    /\ TourId(1) \in DOMAIN tournaments
    /\ tournaments[TourId(1)].matches = <<MatchId(TourId(1), 1), MatchId(TourId(1), 2)>>
    /\ tournaments[TourId(1)].status = COMPLETED
    /\ Truthy(matches[MatchId(TourId(1), 1)].winner)
    /\ Truthy(matches[MatchId(TourId(1), 2)].winner)
    /\ matches[MatchId(TourId(1), 1)].winner # matches[MatchId(TourId(1), 2)].winner
    /\ tournaments[TourId(1)].winner = matches[MatchId(TourId(1), 1)].winner

C5_StartNeedsTwo ==
    [][(/\ Called("start_tournament")
        /\ last'.id \in DOMAIN tournaments
        /\ Len(tournaments[last'.id].participants) < 2) =>
          /\ last'.res = MsgNeedTwo
          /\ tournaments' = tournaments
          /\ matches' = matches
          /\ UNCHANGED <<users, leagues, advertisements, current_user, disk>>
      ]_vars

C5_Witness ==
    /\ last.op = "start_tournament"
    /\ last.res = MsgNeedTwo
    /\ Len(tournaments[last.id].participants) = 1
    /\ tournaments[last.id].status = OPEN_FOR_REGISTRATION

(* C6: applyForTournament by a user already in the participant list fails *)
(* with "Already registered" and leaves the tournament as it was, whatever *)
(* its status or fill level.                                               *)
C6_AlreadyRegistered ==
    [][(/\ Called("apply_for_tournament")
        /\ last'.id \in DOMAIN tournaments
        /\ current_user # NoneVal
        /\ InList(current_user, tournaments[last'.id].participants)) =>
          /\ last'.res = MsgAlreadyRegistered
          /\ tournaments' = tournaments
          /\ disk' = disk
      ]_vars

(* the rejected applicant is in a full tournament that has been started *)
C6_Witness ==
    /\ last.op = "apply_for_tournament"
    /\ last.res = MsgAlreadyRegistered
    /\ Len(tournaments[last.id].participants) >= tournaments[last.id].max_players
    /\ tournaments[last.id].status \in {IN_PROGRESS, COMPLETED}

(* C7: applyForTournament by a user who is not a participant, on a       *)
(* tournament whose participant count has reached max_players, fails with *)
(* "Tournament is full" and leaves the tournament as it was.              *)
C7_TournamentFull ==
    [][(/\ Called("apply_for_tournament")
        /\ last'.id \in DOMAIN tournaments
        /\ current_user # NoneVal
        /\ ~InList(current_user, tournaments[last'.id].participants)
        /\ Len(tournaments[last'.id].participants)
              >= tournaments[last'.id].max_players) =>
          /\ last'.res = MsgTournamentFull
          /\ tournaments' = tournaments
          /\ disk' = disk
      ]_vars

C7_Witness ==
    /\ last.op = "apply_for_tournament"
    /\ last.res = MsgTournamentFull
    /\ tournaments[last.id].max_players >= 2
    /\ Len(tournaments[last.id].participants) = tournaments[last.id].max_players
    /\ ~InList(current_user, tournaments[last.id].participants)

(* C8: every successful applyForTournament appends the current user at the *)
(* end of the participant list and sets the status to Open for             *)
(* Registration, whatever the status was.                                  *)
C8_ApplyAppendsAndOpens ==
    [][(Called("apply_for_tournament") /\ last'.res = MsgApplied) =>
         LET t == last'.id
         IN /\ tournaments'[t].participants =
                  Append(tournaments[t].participants, current_user)
            /\ tournaments'[t].status = OPEN_FOR_REGISTRATION
      ]_vars

(* a late applicant reopened a tournament that had been completed *)
C8_Witness ==
    /\ last.op = "apply_for_tournament"
    /\ last.res = MsgApplied
    /\ tournaments[last.id].status = OPEN_FOR_REGISTRATION
    /\ tournaments[last.id].matches # <<>>
    /\ tournaments[last.id].winner # NoneVal
    /\ AllCompleted(last.id)

(* C9: every register call with a username not yet in the store succeeds *)
(* and increases the number of users by exactly one.                     *)
C9_FreshRegisterSucceeds ==
    [][(Called("register_user") /\ last'.id[1] \notin DOMAIN users) =>
          /\ last'.res = MsgRegistered
          /\ DOMAIN users' = (DOMAIN users) \cup {last'.id[1]}
          /\ Cardinality(DOMAIN users') = Cardinality(DOMAIN users) + 1
      ]_vars

C9_Witness ==
    /\ last.op = "register_user"
    /\ last.res = MsgRegistered
    /\ Cardinality(DOMAIN users) = 3

(* C10: register with a username already in the store fails with         *)
(* "Username already exists"; the users (password, role, approved flag), *)
(* the other collections and the persisted document stay as they were.   *)
C10_DuplicateRegisterRejected ==
    [][(Called("register_user") /\ last'.id[1] \in DOMAIN users) =>
          /\ last'.res = MsgUsernameExists
          /\ users' = users
          /\ disk' = disk
          /\ UNCHANGED <<leagues, tournaments, matches, advertisements, current_user>>
      ]_vars

(* the rejected username belongs to a user whose approval an overwrite *)
(* would have reset                                                    *)
C10_Witness ==
    /\ last.op = "register_user"
    /\ last.res = MsgUsernameExists
    /\ last.id = <<"alice">>
    /\ users["alice"].role # SPECTATOR
    /\ users["alice"].approved
    /\ disk # NoFile

(* C11: a user created by register is approved if and only if the role *)
(* given is Spectator.                                                 *)
C11_ApprovedIffSpectator ==
    [][(Called("register_user") /\ last'.res = MsgRegistered) =>
         LET u == last'.id[1]
         IN users'[u].approved <=> (users'[u].role = SPECTATOR)
      ]_vars

(* a player has just been registered, unapproved *)
C11_Witness ==
    /\ last.op = "register_user"
    /\ last.res = MsgRegistered
    /\ users[last.id[1]].role = PLAYER
    /\ ~users[last.id[1]].approved

(* C12: for a user registered with a non-Spectator role, a login with the *)
(* correct password fails with "Account not approved yet" and leaves the  *)
(* current user alone as long as approve has not been called for that     *)
(* user, and succeeds once it has: the approved flag of such a user       *)
(* becomes true only by approve_user.                                     *)
C12_LoginNeedsApproval ==
    [][/\ \A u \in DOMAIN users' :
             (/\ users'[u].approved
              /\ u \in DOMAIN users => ~users[u].approved) =>
                \/ Called("approve_user") /\ last'.id = <<u>>
                \/ Called("register_user") /\ last'.id = <<u>>
                                           /\ users'[u].role = SPECTATOR
       /\ (/\ Called("login")
           /\ last'.id[1] \in DOMAIN users
           /\ users[last'.id[1]].password = last'.id[2]) =>
             IF users[last'.id[1]].approved
             THEN last'.res = MsgLoginOk /\ current_user' = last'.id[1]
             ELSE last'.res = MsgNotApproved /\ current_user' = current_user
      ]_vars

(* a player logs in with the right password before being approved *)
C12_Witness ==
    /\ last.op = "login"
    /\ last.res = MsgNotApproved
    /\ users[last.id[1]].role = PLAYER
    /\ users[last.id[1]].password = last.id[2]
    /\ current_user # last.id[1]

(* C13: login checks unknown user, then password, then approval; only a *)
(* call that passes all three sets the current user, and no call        *)
(* changes the five collections or the document.                        *)
C13_LoginCheckOrder ==
    [][Called("login") =>
         LET u == last'.id[1]
             p == last'.id[2]
         IN /\ last'.res =
                 (IF u \notin DOMAIN users THEN MsgUserNotFound
                  ELSE IF users[u].password # p THEN MsgInvalidPassword
                  ELSE IF ~users[u].approved THEN MsgNotApproved
                  ELSE MsgLoginOk)
            /\ current_user' = (IF last'.res = MsgLoginOk THEN u ELSE current_user)
            /\ UNCHANGED <<users, leagues, tournaments, matches, advertisements, disk>>
      ]_vars

(* a wrong password on an unapproved account *)
C13_Witness ==
    /\ last.op = "login"
    /\ last.res = MsgInvalidPassword
    /\ ~users[last.id[1]].approved
    /\ users[last.id[1]].password # last.id[2]

Mutating ==
    {"register_user", "approve_user", "create_league", "create_tournament",
     "apply_for_tournament", "start_tournament", "record_match_result",
     "create_advertisement"}

Succeeded == {MsgRegistered, Created, MsgApplied, MsgStarted, MsgRecorded}

(* C15: at every point between two operations, a store constructed anew *)
(* from the file holds the five collections of the store in memory;     *)
(* a mutating operation that succeeds ends with the file rewritten from *)
(* memory, and one that fails changes neither memory nor the file.      *)
C15_RestartSeesMemory ==
    /\ [](Constructed(disk) =
            Document(users, leagues, tournaments, matches, advertisements))
    /\ [][Called(last'.op) /\ last'.op \in Mutating =>
            IF last'.res \in Succeeded
            THEN disk' = <<Text(json_dump(Document(users', leagues', tournaments',
                                                   matches', advertisements')), TRUE)>>
            ELSE UNCHANGED <<users, leagues, tournaments, matches, advertisements, disk>>
        ]_vars

(* after a restart the store holds a started tournament, its league, *)
(* an advertisement and a registered user                            *)
C15_Witness ==
    /\ last.op = "init"
    /\ \E t \in DOMAIN tournaments : tournaments[t].status = IN_PROGRESS
    /\ DOMAIN leagues # {}
    /\ DOMAIN advertisements # {}
    /\ DOMAIN matches # {}
    /\ DOMAIN users # {"admin"}

(* C16: writing the five collections and reading the text back gives *)
(* the same five collections, field for field.                       *)
C16_RoundTrip ==
    load_data(<<Text(json_dump(Document(users, leagues, tournaments, matches,
                                        advertisements)), TRUE)>>)
      = Document(users, leagues, tournaments, matches, advertisements)

(* all five collections populated: a tournament without winner, its *)
(* two participants and two match ids in order, a match without     *)
(* winner                                                           *)
C16_Witness ==
    /\ \E t \in DOMAIN tournaments :
          /\ tournaments[t].winner = NoneVal
          /\ Len(tournaments[t].participants) >= 2
          /\ Len(tournaments[t].matches) >= 2
    /\ \E m \in DOMAIN matches : matches[m].winner = NoneVal
    /\ DOMAIN leagues # {}
    /\ DOMAIN advertisements # {}
    /\ Cardinality(DOMAIN users) >= 2

Saved(u, l, t, m, a) == <<Text(json_dump(Document(u, l, t, m, a)), TRUE)>>

(* C17, as stated: approving a user who is already approved leaves the *)
(* store in memory and the file exactly as they were (here with an     *)
(* operator logged in, as on the operator dashboard).                  *)
C17_ApproveLeavesFileAlone ==
    [][(/\ Called("approve_user")
        /\ users[last'.id[1]].approved
        /\ current_user \in DOMAIN users
        /\ users[current_user].role = OPERATOR) =>
          UNCHANGED <<users, leagues, tournaments, matches, advertisements, disk>>
      ]_vars

(* C17, amended: approve sets the approved flag of that user and changes *)
(* no other field; on a user who is already approved it leaves the store *)
(* in memory as it was and rewrites the file from it, so the file is as  *)
(* it was whenever it already held that store, and is created or         *)
(* brought up to date otherwise.                                         *)
C17_ApproveIdempotent ==
    [][Called("approve_user") =>
         LET u == last'.id[1] IN
         /\ users' = [users EXCEPT ![u].approved = TRUE]
         /\ UNCHANGED <<leagues, tournaments, matches, advertisements, current_user>>
         /\ disk' = Saved(users', leagues', tournaments', matches', advertisements')
         /\ users[u].approved =>
              /\ UNCHANGED <<users, leagues, tournaments, matches, advertisements>>
              /\ disk = Saved(users, leagues, tournaments, matches, advertisements)
                   => disk' = disk
      ]_vars

(* the bootstrap admin, approved from the start, has just been approved *)
(* again with a registered user in the store                            *)
C17_Witness ==
    /\ last.op = "approve_user"
    /\ last.id = <<"admin">>
    /\ users["admin"].approved
    /\ DOMAIN users # {"admin"}
    /\ disk = Saved(users, leagues, tournaments, matches, advertisements)

(* the file is absent, or is a document that holds no user *)
NoUsersOnDisk ==
    \/ disk = NoFile
    \/ /\ disk[1].wellformed
       /\ disk[1].value[1] = "object"
       /\ "users" \in DOMAIN disk[1].value[2] => DOMAIN disk[1].value[2]["users"][2] = {}

OnlyAdmin ==
    /\ DOMAIN users = {"admin"}
    /\ users["admin"].role = OPERATOR
    /\ users["admin"].approved
    /\ login_result("admin", "admin123") = MsgLoginOk

AdminOnDisk ==
    /\ disk # NoFile
    /\ disk[1].wellformed
    /\ disk[1].value[1] = "object"
    /\ "users" \in DOMAIN disk[1].value[2]
    /\ "admin" \in DOMAIN disk[1].value[2]["users"][2]

(* C19: constructed over a document that holds a user keyed admin, the *)
(* store holds the users of the document and nothing else, the admin   *)
(* record as written there; the default record is inserted only when   *)
(* no admin key was loaded.                                            *)
C19_PersistedAdminKept ==
    last.op = "init" =>
        IF AdminOnDisk
        THEN users = json_value(disk[1].value[2]["users"])
        ELSE /\ users["admin"] = AdminRecord
             /\ [u \in DOMAIN users \ {"admin"} |-> users[u]] = load_data(disk).users

(* constructed over a document whose admin has an edited password, role *)
(* or approved flag                                                     *)
C19_Witness ==
    /\ last.op = "init"
    /\ AdminOnDisk
    /\ users["admin"] # AdminRecord
    /\ users["admin"] = json_value(disk[1].value[2]["users"][2]["admin"])

(* C20: constructed over a file that is not well-formed JSON, the store *)
(* holds the bootstrap admin alone and four empty collections, whatever *)
(* can be read off the text.                                            *)
C20_UnparsableLoadsNothing ==
    (last.op = "init" /\ disk # NoFile /\ ~disk[1].wellformed) =>
        /\ users = [u \in {"admin"} |-> AdminRecord]
        /\ DOMAIN leagues = {} /\ DOMAIN tournaments = {}
        /\ DOMAIN matches = {} /\ DOMAIN advertisements = {}

(* constructed over a malformed text in which users and a league can *)
(* still be read                                                     *)
C20_Witness ==
    /\ last.op = "init"
    /\ disk # NoFile
    /\ ~disk[1].wellformed
    /\ disk[1].value[1] = "object"
    /\ "leagues" \in DOMAIN disk[1].value[2]
    /\ DOMAIN disk[1].value[2]["leagues"][2] # {}
    /\ "users" \in DOMAIN disk[1].value[2]
    /\ "alice" \in DOMAIN disk[1].value[2]["users"][2]
    /\ DOMAIN users = {"admin"}
    /\ DOMAIN leagues = {}

T1 == TourId(1)

(* C14: the tournament for two, step by step.  alice, registered as a   *)
(* player, cannot log in before she is approved and can afterwards; bob *)
(* creates the tournament in his league with room for two; the first    *)
(* application (alice) succeeds and opens registration, the second      *)
(* (carol) succeeds, a third is refused as the tournament is full; bob  *)
(* starts it: in progress with the single match T_MATCH_1, alice        *)
(* against carol; recording that match for alice completes the          *)
(* tournament with alice as its winner.                                 *)
C14_TournamentForTwo ==
    [][/\ (Called("register_user") /\ last'.id = <<"alice">>
             /\ "alice" \notin DOMAIN users) =>
            /\ last'.res = MsgRegistered
            /\ users'["alice"].role = PLAYER /\ ~users'["alice"].approved
       /\ (Called("login") /\ last'.id = <<"alice", "pw">>
             /\ "alice" \in DOMAIN users) =>
            IF users["alice"].approved
            THEN last'.res = MsgLoginOk /\ current_user' = "alice"
            ELSE last'.res = MsgNotApproved
       /\ (Called("create_tournament") /\ current_user = "bob"
             /\ DOMAIN leagues = {LeagueId(1)} /\ DOMAIN tournaments = {}) =>
            /\ last'.id = T1
            /\ tournaments'[T1].max_players = 2
            /\ tournaments'[T1].status = ANNOUNCED
            /\ tournaments'[T1].participants = <<>>
            /\ leagues'[LeagueId(1)].tournaments = <<T1>>
       /\ (Called("apply_for_tournament") /\ last'.id = T1
             /\ T1 \in DOMAIN tournaments
             /\ current_user \in Applicants
             /\ ~InList(current_user, tournaments[T1].participants)) =>
            IF Len(tournaments[T1].participants) < 2
            THEN /\ last'.res = MsgApplied
                 /\ tournaments'[T1].participants =
                      Append(tournaments[T1].participants, current_user)
                 /\ tournaments'[T1].status = OPEN_FOR_REGISTRATION
            ELSE /\ last'.res = MsgTournamentFull
                 /\ tournaments' = tournaments
       /\ (Called("start_tournament") /\ last'.id = T1
             /\ T1 \in DOMAIN tournaments
             /\ tournaments[T1].participants = <<"alice", "carol">>
             /\ tournaments[T1].matches = <<>>) =>
            /\ last'.res = MsgStarted
            /\ tournaments'[T1].status = IN_PROGRESS
            /\ tournaments'[T1].matches = <<MatchId(T1, 1)>>
            /\ {m \in DOMAIN matches' : matches'[m].tournament_id = T1}
                 = {MatchId(T1, 1)}
            /\ matches'[MatchId(T1, 1)].player1 = "alice"
            /\ matches'[MatchId(T1, 1)].player2 = "carol"
       /\ (Called("record_match_result") /\ last'.id = MatchId(T1, 1)
             /\ T1 \in DOMAIN tournaments
             /\ tournaments[T1].status = IN_PROGRESS
             /\ tournaments[T1].matches = <<MatchId(T1, 1)>>
             /\ matches'[MatchId(T1, 1)].winner = "alice") =>
            /\ last'.res = MsgRecorded
            /\ tournaments'[T1].status = COMPLETED
            /\ tournaments'[T1].winner = "alice"
      ]_vars

(* the end of the story: bob's tournament for two, alice and carol in *)
(* it, dave registered and approved but not in it, its one match      *)
(* recorded for alice, the tournament completed with alice as winner  *)
C14_Witness ==
    /\ last = Result("record_match_result", MsgRecorded, MatchId(T1, 1))
    /\ T1 \in DOMAIN tournaments
    /\ tournaments[T1].created_by = "bob"
    /\ tournaments[T1].max_players = 2
    /\ tournaments[T1].participants = <<"alice", "carol">>
    /\ tournaments[T1].matches = <<MatchId(T1, 1)>>
    /\ tournaments[T1].status = COMPLETED
    /\ tournaments[T1].winner = "alice"
    /\ matches[MatchId(T1, 1)].player1 = "alice"
    /\ matches[MatchId(T1, 1)].player2 = "carol"
    /\ leagues[LeagueId(1)].tournaments = <<T1>>
    /\ "dave" \in DOMAIN users /\ users["dave"].approved

(* the ids a successful start of tournament t writes to the matches dict *)
StartedIds(t) ==
    {MatchId(t, k) : k \in 1..Cardinality(PairStarts(Len(tournaments[t].participants)))}

(* C21: every league, tournament, match and advertisement that an     *)
(* operation creates gets an id that no record of its kind holds, the *)
(* k-th league, tournament and advertisement being LEAGUE_k, TOUR_k   *)
(* and AD_k, so no creation overwrites a record.                      *)
C21_CreatedIdsAreFresh ==
    [][/\ (Called("create_league") /\ last'.res = Created) =>
            /\ last'.id = LeagueId(Cardinality(DOMAIN leagues) + 1)
            /\ last'.id \notin DOMAIN leagues
       /\ (Called("create_tournament") /\ last'.res = Created) =>
            /\ last'.id = TourId(Cardinality(DOMAIN tournaments) + 1)
            /\ last'.id \notin DOMAIN tournaments
       /\ (Called("create_advertisement") /\ last'.res = Created) =>
            /\ last'.id = AdId(Cardinality(DOMAIN advertisements) + 1)
            /\ last'.id \notin DOMAIN advertisements
       /\ (Called("start_tournament") /\ last'.res = MsgStarted) =>
            StartedIds(last'.id) \cap DOMAIN matches = {}
      ]_vars

(* C22: Completed is a terminal match status: a match that is *)
(* Completed stays Completed in every later step.             *)
C22_CompletedMatchStaysCompleted ==
    [][\A m \in DOMAIN matches :
          matches[m].status = COMPLETED =>
             m \in DOMAIN matches' /\ matches'[m].status = COMPLETED
      ]_vars

StatusRank(s) ==
    CASE s = ANNOUNCED -> 1
      [] s = OPEN_FOR_REGISTRATION -> 2
      [] s = IN_PROGRESS -> 3
      [] s = COMPLETED -> 4
      [] s = ARCHIVED -> 5

(* C23: the status of a tournament never moves back along Announced, *)
(* Open for Registration, In Progress, Completed.                    *)
C23_TournamentStatusMovesForward ==
    [][\A t \in DOMAIN tournaments :
          t \in DOMAIN tournaments'
          /\ StatusRank(tournaments'[t].status) >= StatusRank(tournaments[t].status)
      ]_vars

NeedsUser ==
    {"create_league", "create_tournament", "create_advertisement",
     "apply_for_tournament"}

(* C24: create_league, create_tournament, create_advertisement and     *)
(* apply_for_tournament on an existing tournament, called while nobody *)
(* is logged in, return a failure instead of raising, and leave the    *)
(* five collections and the file as they were.                         *)
C24_NoUserIsOrdinaryFailure ==
    [][(/\ Called(last'.op)
        /\ last'.op \in NeedsUser
        /\ current_user = NoneVal
        /\ last'.op = "apply_for_tournament" => last'.id \in DOMAIN tournaments) =>
          /\ last'.res # TypeError
          /\ UNCHANGED <<users, leagues, tournaments, matches, advertisements, disk>>
      ]_vars

(* C25: the current user is set only by a successful login and is     *)
(* absent again after logout, so that a creation called right after a *)
(* logout cannot stamp the user who was logged in.                    *)
C25_LogoutClearsCurrentUser ==
    [][/\ current_user' # current_user =>
            \/ Called("login") /\ last'.res = MsgLoginOk
            \/ Called("logout")
       /\ Called("logout") => current_user' = NoneVal
       /\ (last.op = "logout" /\ Called(last'.op) /\ last'.op \in NeedsUser) =>
            last'.res \notin {Created, MsgApplied}
      ]_vars

(* C26: from the empty store, no sequence of operations gives a *)
(* tournament the status Archived or a match the status Live.   *)
C26_ReservedStatusesUnused ==
    /\ \A t \in DOMAIN tournaments : tournaments[t].status # ARCHIVED
    /\ \A m \in DOMAIN matches : matches[m].status # LIVE

(* a tournament has gone through all its statuses: completed, with a *)
(* completed match                                                   *)
C26_Witness ==
    /\ last.op = "record_match_result"
    /\ \E t \in DOMAIN tournaments :
          /\ tournaments[t].status = COMPLETED
          /\ tournaments[t].matches # <<>>
          /\ \A i \in 1..Len(tournaments[t].matches) :
                matches[tournaments[t].matches[i]].status = COMPLETED

(* C27: the first successful start of a tournament with participants *)
(* p1..pn creates matches <id>_MATCH_1, <id>_MATCH_2, ... in this     *)
(* order in the tournament's list; the k-th has player1 = p(2k-1),    *)
(* player2 = p(2k), status Scheduled and no winner.                   *)
C27_FirstStartPairsInOrder ==
    [][(/\ Called("start_tournament")
        /\ last'.res = MsgStarted
        /\ tournaments[last'.id].matches = <<>>) =>
          LET t == last'.id
              p == tournaments[t].participants
              ids == tournaments'[t].matches
          IN /\ Len(ids) >= 1
             /\ 2 * Len(ids) <= Len(p)
             /\ \A k \in 1..Len(ids) :
                   /\ ids[k] = MatchId(t, k)
                   /\ matches'[ids[k]].tournament_id = t
                   /\ matches'[ids[k]].player1 = p[2 * k - 1]
                   /\ matches'[ids[k]].player2 = p[2 * k]
                   /\ matches'[ids[k]].status = SCHEDULED
                   /\ matches'[ids[k]].winner = NoneVal
             /\ {m \in DOMAIN matches' : matches'[m].tournament_id = t}
                  = {ids[k] : k \in 1..Len(ids)}
      ]_vars

(* four participants have just been paired for the first time: two *)
(* matches, the second between the third and the fourth            *)
C27_Witness ==
    /\ last.op = "start_tournament"
    /\ last.res = MsgStarted
    /\ Len(tournaments[last.id].participants) = 4
    /\ tournaments[last.id].matches = <<MatchId(last.id, 1), MatchId(last.id, 2)>>
    /\ matches[MatchId(last.id, 2)].player1 = tournaments[last.id].participants[3]
    /\ matches[MatchId(last.id, 2)].player2 = tournaments[last.id].participants[4]

(* C28: create_tournament creates the tournament Announced, with no     *)
(* participants, no matches and no winner, and appends its id to the    *)
(* list of the league named if that league exists and to no list        *)
(* otherwise; so every id in a league's list names an existing          *)
(* tournament of that league and stands there once.                     *)
C28_TournamentCreatedInItsLeague ==
    /\ [](\A l \in DOMAIN leagues :
            LET ids == leagues[l].tournaments
            IN \A i \in 1..Len(ids) :
                  /\ ids[i] \in DOMAIN tournaments
                  /\ tournaments[ids[i]].league_id = l
                  /\ \A j \in 1..Len(ids) : ids[j] = ids[i] => j = i)
    /\ [][(Called("create_tournament") /\ last'.res = Created) =>
            LET t == last'.id
                l == tournaments'[t].league_id
            IN /\ t \notin DOMAIN tournaments
               /\ tournaments'[t].status = ANNOUNCED
               /\ tournaments'[t].participants = <<>>
               /\ tournaments'[t].matches = <<>>
               /\ tournaments'[t].winner = NoneVal
               /\ DOMAIN leagues' = DOMAIN leagues
               /\ \A k \in DOMAIN leagues :
                     leagues'[k].tournaments =
                        IF k = l THEN Append(leagues[k].tournaments, t)
                        ELSE leagues[k].tournaments
        ]_vars

(* a tournament has just been created in an existing league *)
C28_Witness ==
    /\ last.op = "create_tournament"
    /\ last.res = Created
    /\ tournaments[last.id].league_id \in DOMAIN leagues
    /\ leagues[tournaments[last.id].league_id].tournaments = <<last.id>>

(* C29: a tournament whose status is Completed has a winner and every *)
(* match in its list is Completed.                                    *)
C29_CompletedHasWinnerAndMatchesDone ==
    \A t \in DOMAIN tournaments :
       tournaments[t].status = COMPLETED =>
          /\ tournaments[t].winner # NoneVal
          /\ \A i \in 1..Len(tournaments[t].matches) :
                /\ tournaments[t].matches[i] \in DOMAIN matches
                /\ matches[tournaments[t].matches[i]].status = COMPLETED

(* a completed tournament whose match was recorded again, this time *)
(* without a winner                                                  *)
C29_Witness ==
    /\ last.op = "record_match_result"
    /\ \E t \in DOMAIN tournaments :
          /\ tournaments[t].status = COMPLETED
          /\ tournaments[t].winner # NoneVal
          /\ \E i \in 1..Len(tournaments[t].matches) :
                matches[tournaments[t].matches[i]].winner = NoneVal

(* C30: the two players of every match are different users, both in *)
(* the participant list of the match's tournament (player2 may be   *)
(* "BYE" instead).                                                  *)
C30_PlayersAreDistinctParticipants ==
    \A m \in DOMAIN matches :
       LET t == matches[m].tournament_id IN
       /\ t \in DOMAIN tournaments
       /\ matches[m].player1 # matches[m].player2
       /\ InList(matches[m].player1, tournaments[t].participants)
       /\ \/ matches[m].player2 = BYE
          \/ InList(matches[m].player2, tournaments[t].participants)

(* a tournament started a second time after a third participant came *)
(* in: its one match, listed twice, is still between the first two    *)
C30_Witness ==
    /\ last.op = "start_tournament"
    /\ last.res = MsgStarted
    /\ Len(tournaments[last.id].participants) = 3
    /\ tournaments[last.id].matches = <<MatchId(last.id, 1), MatchId(last.id, 1)>>
    /\ matches[MatchId(last.id, 1)].player2 = tournaments[last.id].participants[2]

(* the match records of tournament t *)
MatchesOf(t) == {m \in DOMAIN matches : matches[m].tournament_id = t}

(* C31: the match-id list of a tournament holds no id twice; its  *)
(* length is the number of match records of that tournament, also *)
(* after the tournament has been started more than once.          *)
C31_MatchListHasNoDuplicates ==
    \A t \in DOMAIN tournaments :
       /\ \A i, j \in 1..Len(tournaments[t].matches) :
             tournaments[t].matches[i] = tournaments[t].matches[j] => i = j
       /\ Len(tournaments[t].matches) = Cardinality(MatchesOf(t))

(* C32: the winner and score of a Completed match are final, and so *)
(* is the winner of a Completed tournament.                         *)
C32_ResultsAreFinal ==
    [][/\ \A m \in DOMAIN matches :
             matches[m].status = COMPLETED =>
                /\ m \in DOMAIN matches'
                /\ matches'[m].winner = matches[m].winner
                /\ matches'[m].score = matches[m].score
       /\ \A t \in DOMAIN tournaments :
             tournaments[t].status = COMPLETED =>
                /\ t \in DOMAIN tournaments'
                /\ tournaments'[t].winner = tournaments[t].winner
      ]_vars

(* C33: the recorded winner of a match is one of its two players, and *)
(* the winner of a Completed tournament is one of its participants.   *)
C33_WinnerTookPart ==
    /\ \A m \in DOMAIN matches :
          matches[m].winner # NoneVal =>
             matches[m].winner \in {matches[m].player1, matches[m].player2}
    /\ \A t \in DOMAIN tournaments :
          tournaments[t].status = COMPLETED =>
             InList(tournaments[t].winner, tournaments[t].participants)

Lifecycle == {"apply_for_tournament", "start_tournament", "record_match_result"}

(* C34: apply_for_tournament, start_tournament and record_match_result *)
(* change only the tournament they are aimed at and matches of that    *)
(* tournament: every other tournament, the matches of every other      *)
(* tournament, and all users, leagues and advertisements stay as they  *)
(* are.                                                                *)
C34_LifecycleTouchesOneTournament ==
    [][(Called(last'.op) /\ last'.op \in Lifecycle) =>
         LET aimed == IF last'.op # "record_match_result" THEN {last'.id}
                      ELSE IF last'.id \in DOMAIN matches
                           THEN {matches[last'.id].tournament_id}
                           ELSE {}
         IN /\ UNCHANGED <<users, leagues, advertisements>>
            /\ DOMAIN tournaments' = DOMAIN tournaments
            /\ \A o \in DOMAIN tournaments \ aimed : tournaments'[o] = tournaments[o]
            /\ \A m \in DOMAIN matches :
                  matches[m].tournament_id \notin aimed =>
                     m \in DOMAIN matches' /\ matches'[m] = matches[m]
            /\ \A m \in DOMAIN matches' \ DOMAIN matches :
                  matches'[m].tournament_id \in aimed
      ]_vars

(* the second tournament has just been started while the first one is *)
(* completed, with its recorded match                                 *)
C34_Witness ==
    /\ last = Result("start_tournament", MsgStarted, TourId(2))
    /\ TourId(1) \in DOMAIN tournaments
    /\ tournaments[TourId(1)].status = COMPLETED
    /\ matches[MatchId(TourId(1), 1)].status = COMPLETED
    /\ matches[MatchId(TourId(2), 1)].status = SCHEDULED

====
